---- MODULE Spec2Model ----
(***************************************************************************)
(* A model of Minlateration (multilateration.py): locate_intersections and *)
(* multiple_multilateration, with the loss/jacobian builder, the cluster   *)
(* count estimator, the solve/reassign loop and the ambiguity resolver.    *)
(*                                                                         *)
(* Arithmetic is exact.  A length is an integer number of 1/Unit-ths of    *)
(* the circles' unit of length, and the circles the model runs on are      *)
(* chosen so that every norm, every intersection point the estimator       *)
(* collects and every cluster mean is such an integer.  Quantities the     *)
(* code scales by 0.9, 1.1 or 1/10 are kept as fractions <<num, den>>.     *)
(***************************************************************************)
EXTENDS Integers, Sequences, FiniteSets, TLC

\* ------------------------------------------------------------- bounds
\* Longest circle list given to locate_intersections.
MaxCircles == 2
\* opt_trials: optimization restarts per group solve.
OptTrials == 2
\* recluster_iters: solve/reassign rounds per run.
ReclusterIters == 3

\* One unit of length of the circles.  The point cloud of a list of up to
\* seven points has means with denominators up to 7.
Unit == 3 * 4 * 5 * 7

\* sys.maxsize, the "essentially infinite" loss.  Scaled down: it exceeds
\* every sum of solved losses the bounds allow, as 2^63-1 does in the code.
maxsize == 1000000

\* Python's None where an integer cluster id is expected.
None == -1
\* Python's None where a point or a list is expected (no list the code
\* builds in these places is empty).
NoPoint == <<>>
NoList == <<>>

\* ------------------------------------------------------------ helpers
Abs(a) == IF a < 0 THEN 0 - a ELSE a

Min2(a, b) == IF a < b THEN a ELSE b

Max2(a, b) == IF a > b THEN a ELSE b

RECURSIVE SumSeq(_)
SumSeq(s) == IF s = <<>> THEN 0 ELSE Head(s) + SumSeq(Tail(s))

Pt(x, y) == <<x * Unit, y * Unit>>

Sub(p, x) == <<p[1] - x[1], p[2] - x[2]>>

\* np.linalg.norm of a vector whose length is an integer: the exact root.
Norm(v) ==
    LET a == Abs(v[1])
        b == Abs(v[2])
    IN IF b = 0 THEN a
       ELSE IF a = 0 THEN b
       ELSE CHOOSE d \in Max2(a, b)..(a + b) : d * d = a * a + b * b

\* ------------------------------------------- loss / jacobian builder
single_loss(p, x, r) == Abs(Norm(Sub(p, x)) - r)

\* loss_func of opt_func_dec for the circles of one group.
loss_func(circles, p) ==
    SumSeq([k \in 1..Len(circles) |-> single_loss(p, circles[k].c, circles[k].r)])

\* jacobian of opt_func_dec: the sum of 2*(d-ri) * (1/2)*(1/d) * 2*(p-xi).
\* Exact where p and the centers are on one line parallel to an axis, so
\* that (p-xi)/d has the components 0 and +-1; p is no center.
jacobian(circles, p) ==
    LET term(k, n) == LET d == Norm(Sub(p, circles[k].c))
                      IN (2 * (d - circles[k].r) * (p[n] - circles[k].c[n])) \div d
    IN <<SumSeq([k \in 1..Len(circles) |-> term(k, 1)]),
         SumSeq([k \in 1..Len(circles) |-> term(k, 2)])>>

\* ------------------------------------------------ consumed primitive
\* get_circle_intersections (circle_intersection.py), by its contract, for
\* two circles whose radii are the fractions r0n/den and r1n/den: the case
\* tag, and the two points.  Tangent circles intersect (the same point
\* twice); the point of two circles that touch from outside is computed,
\* the points of two circles that cross are opaque values naming the pair.
\* For 'contained' the values returned in place of the points say which
\* circle is the containing one.
IntersectionCase(c0, r0n, c1, r1n, den) ==
    LET d == den * Norm(Sub(c1, c0)) IN
    IF d = 0 /\ r0n = r1n THEN "coincident"
    ELSE IF d > r0n + r1n THEN "seperate"
    ELSE IF d < Abs(r0n - r1n) THEN "contained"
    ELSE "intersect"

IntersectionPoint(which, c0, r0n, c1, r1n, den) ==
    IF den * Norm(Sub(c1, c0)) = r0n + r1n /\ r0n + r1n > 0
    THEN <<c0[1] + ((c1[1] - c0[1]) * r0n) \div (r0n + r1n),
           c0[2] + ((c1[2] - c0[2]) * r0n) \div (r0n + r1n)>>
    ELSE <<which, c0[1], c0[2], r0n, c1[1], c1[2], r1n>>

get_circle_intersections(c0, r0n, c1, r1n, den) ==
    LET case == IntersectionCase(c0, r0n, c1, r1n, den) IN
    [case |-> case,
     ix0 |-> IF case = "intersect" THEN IntersectionPoint(0, c0, r0n, c1, r1n, den)
             ELSE IF case = "contained" /\ r0n > r1n THEN <<1>> ELSE <<0>>,
     ix1 |-> IF case = "intersect" THEN IntersectionPoint(1, c0, r0n, c1, r1n, den)
             ELSE IF case = "contained" /\ r1n > r0n THEN <<1>> ELSE <<0>>]

\* ------------------------------------------- cluster count estimator
\* determine_num_lat_clusters, the body of the pair loop: the points the
\* pair (circle0, circle1) adds to hcluster_points.
PairPoints(circle0, circle1) ==
    LET first == get_circle_intersections(circle0.c, 10 * circle0.r,
                                          circle1.c, 10 * circle1.r, 10)
        expanded == get_circle_intersections(circle0.c, 11 * circle0.r,
                                             circle1.c, 11 * circle1.r, 10)
        reduced == get_circle_intersections(
                      circle0.c, (IF first.ix0 = <<1>> THEN 9 ELSE 11) * circle0.r,
                      circle1.c, (IF first.ix1 = <<1>> THEN 9 ELSE 11) * circle1.r, 10)
    IN IF first.case = "seperate"
       THEN IF expanded.case = "intersect" THEN <<expanded.ix0, expanded.ix1>> ELSE <<>>
       ELSE IF first.case = "contained"
       THEN IF reduced.case = "intersect" THEN <<reduced.ix0, reduced.ix1>> ELSE <<>>
       ELSE IF first.case = "intersect" THEN <<first.ix0, first.ix1>>
       ELSE <<>>

\* The inner loop "for j, circle1 in enumerate(circles[i+1:], i+1)".
RECURSIVE PairLoop(_, _, _)
PairLoop(circles, a, b) ==
    IF b > Len(circles) THEN <<>>
    ELSE PairPoints(circles[a], circles[b]) \o PairLoop(circles, a, b + 1)

\* hcluster_points: each circle's center, followed by the points of its
\* pairs with the later circles.
RECURSIVE HclusterPoints(_, _)
HclusterPoints(circles, a) ==
    IF a > Len(circles) THEN <<>>
    ELSE <<circles[a].c>> \o PairLoop(circles, a, a + 1) \o HclusterPoints(circles, a + 1)

\* circle_point_id_list: where each circle's center is in hcluster_points.
RECURSIVE CirclePointIds(_, _, _)
CirclePointIds(circles, a, point_count) ==
    IF a > Len(circles) THEN <<>>
    ELSE <<point_count>>
         \o CirclePointIds(circles, a + 1,
                           point_count + 1 + Len(PairLoop(circles, a, a + 1)))

\* scipy's fclusterdata(points, t, criterion='distance') with its default
\* single linkage: two points share a flat cluster exactly when a chain of
\* points, each within t of the next, joins them.  t is a fraction.
Within(points, a, b, t) == t[2] * Norm(Sub(points[a], points[b])) <= t[1]

RECURSIVE Chain(_, _, _)
Chain(points, t, S) ==
    LET T == S \cup {b \in 1..Len(points) : \E a \in S : Within(points, a, b, t)}
    IN IF T = S THEN S ELSE Chain(points, t, T)

\* The labellings fclusterdata may return, already "enumerated from zero":
\* the numbering of the clusters is scipy's choice.
Labellings(points, t) ==
    LET N == Len(points)
        comps == {Chain(points, t, {a}) : a \in 1..N}
        k == Cardinality(comps)
    IN {lab \in [1..N -> 0..(k - 1)] :
          \A a, b \in 1..N : (lab[a] = lab[b]) <=> (b \in Chain(points, t, {a}))}

\* "Calculate the cluster means".
ClusterMean(points, lab, g) ==
    LET members == SelectSeq([a \in 1..Len(points) |-> a], LAMBDA a : lab[a] = g)
        count == Len(members)
    IN <<SumSeq([m \in 1..count |-> points[members[m]][1]]) \div count,
         SumSeq([m \in 1..count |-> points[members[m]][2]]) \div count>>

\* perform_hcluster: the outcomes [num, enum_clusters, means] for a cloud.
perform_hcluster(points, t) ==
    IF Len(points) = 1
    THEN {[num |-> 1, enum |-> <<0>>, means |-> <<points[1]>>]}
    ELSE {LET num == 1 + lab[CHOOSE a \in 1..Len(points) :
                                 \A b \in 1..Len(points) : lab[b] <= lab[a]]
          IN [num |-> num, enum |-> lab,
              means |-> [g \in 1..num |-> ClusterMean(points, lab, g - 1)]]
          : lab \in Labellings(points, t)}

\* determine_num_lat_clusters, with the seeding loop of its caller: the
\* outcomes [num, ids, means], ids[k] being circle k's cluster.
determine_num_lat_clusters(circles, t) ==
    LET points == HclusterPoints(circles, 1)
        where == CirclePointIds(circles, 1, 0)
    IN {[num |-> h.num,
         ids |-> [k \in 1..Len(circles) |-> h.enum[where[k] + 1]],
         means |-> h.means] : h \in perform_hcluster(points, t)}

\* get_local_lims
RECURSIVE LocalLims(_, _)
LocalLims(circles, acc) ==
    IF circles = <<>> THEN acc
    ELSE LET h == Head(circles) IN
         LocalLims(Tail(circles),
                   [max_x |-> Max2(h.c[1] + h.r, acc.max_x),
                    min_x |-> Min2(h.c[1] - h.r, acc.min_x),
                    max_y |-> Max2(h.c[2] + h.r, acc.max_y),
                    min_y |-> Min2(h.c[2] - h.r, acc.min_y)])

get_local_lims(circles) ==
    LET l == LocalLims(circles, [max_x |-> 0 - maxsize, min_x |-> maxsize,
                                 max_y |-> 0 - maxsize, min_y |-> maxsize])
    IN <<(<<l.min_x, l.max_x>>), (<<l.min_y, l.max_y>>)>>

\* ---------------------------------------------------------- the state
VARIABLES
    pc,                     \* where the run is
    err,                    \* the exception that ended it, "" if none
    circles_copy,           \* circles, each [c, r, id, label]
    xlim, ylim,             \* coordinate limits in use
    highlight_radius,       \* fraction
    clustering_threshold,   \* fraction
    num_lat_clusters,       \* None until known
    p0_list,                \* cluster means from the estimator, or NoList
    i, j, ot,               \* round, group and trial counters
    lat_clusters,           \* per group, the indices of its circles
    min_fun_vals_list_prev,
    min_fun_vals_list,
    min_fun_vals,           \* the result multilat is building
    use_local_lims,         \* multilat's argument
    p0,                     \* the start of the current trial [kind, pt]
    p,                      \* what minimize returned for it [fun, x]
    best_total_loss,
    best_fun_vals_list,
    totals,                 \* history: the total_loss values of the rounds so far
    returned,               \* what locate_intersections returned
    probe                   \* a loss/jacobian pair under comparison

vars == <<pc, err, circles_copy, xlim, ylim, highlight_radius,
          clustering_threshold, num_lat_clusters, p0_list, i, j, ot,
          lat_clusters, min_fun_vals_list_prev, min_fun_vals_list, min_fun_vals,
          use_local_lims, p0, p, best_total_loss, best_fun_vals_list, totals,
          returned, probe>>

NoFunVals == [loss |-> maxsize, p |-> NoPoint, circles |-> <<>>, index |-> None,
              pp |-> <<>>]
NoStart == [kind |-> "none", pt |-> NoPoint]
NoResult == [fun |-> maxsize, x |-> NoPoint]
NoProbe == [circles |-> <<>>, p |-> NoPoint, grad_j |-> NoPoint, fd |-> NoPoint]
NoLim == <<0, 0>>
NoFrac == <<0, 1>>

Init ==
    /\ pc = "start"
    /\ err = ""
    /\ circles_copy = <<>>
    /\ xlim = NoLim
    /\ ylim = NoLim
    /\ highlight_radius = NoFrac
    /\ clustering_threshold = NoFrac
    /\ num_lat_clusters = None
    /\ p0_list = NoList
    /\ i = 0
    /\ j = 0
    /\ ot = 0
    /\ lat_clusters = <<>>
    /\ min_fun_vals_list_prev = <<>>
    /\ min_fun_vals_list = <<>>
    /\ min_fun_vals = NoFunVals
    /\ use_local_lims = FALSE
    /\ p0 = NoStart
    /\ p = NoResult
    /\ best_total_loss = maxsize
    /\ best_fun_vals_list = NoList
    /\ totals = {}
    /\ returned = NoList
    /\ probe = NoProbe

\* ------------------------------------------------------------- inputs
\* The circles a caller's list is made of: a point circle, a circle around
\* the same center, and a circle that touches the second and lies apart from
\* the first.  All centers are on one line.
CircleSet == {[c |-> Pt(0, 0), r |-> 0], [c |-> Pt(0, 0), r |-> 3 * Unit],
              [c |-> Pt(6, 0), r |-> 3 * Unit]}

\* Circle lists a caller may pass, the empty list included.
InputCircles == UNION {[1..n -> CircleSet] : n \in 0..MaxCircles}

\* The clustering thresholds a caller passes when it passes one: below every
\* distance between distinct points of the cloud, and above all of them.
GivenThresholds == {<<Unit, 1>>, <<7 * Unit, 1>>}

\* The points scipy's minimize returns are taken from these.
OptPoints == {Pt(0, 0), Pt(3, 0), Pt(6, 0)}

\* The points np.random.uniform draws are taken from these; every region the
\* runs draw from holds one of them.
StartPoints == {Pt(0, 0), Pt(6, 0)}

\* ------------------------------------------------ locate_intersections
\* K, the reference diameter of the threshold heuristic.
K == 34

\* "if clustering_threshold is None": 4.488449 * (r_avg / 3), or / 2.5 when
\* K / (r_avg*3) >= 3.95, as a fraction that compares with whole lengths as
\* the exact value does.  r_sum is the sum of the n radii.
AutoThreshold(r_sum, n) ==
    LET num == 4488 * r_sum + (449 * r_sum) \div 1000 IN
    IF 100 * K * Unit * n < 395 * 3 * r_sum
    THEN <<num, 3000 * n>>
    ELSE <<num, 2500 * n>>

\* locate_intersections up to its call of multiple_multilateration, and the
\* deepcopy the callee starts with.  An exception ends the run.
LocateIntersections ==
    /\ pc = "start"
    /\ \E circles_ref \in InputCircles,
          lims \in {"omitted", "xlim only"},
          num \in {None, 1, 2},
          threshold \in {NoFrac} \cup GivenThresholds :
         LET n == Len(circles_ref)
             circles_np == [k \in 1..n |->
                              [c |-> circles_ref[k].c, r |-> circles_ref[k].r,
                               id |-> None, label |-> k]]
             r_sum == SumSeq([k \in 1..n |-> circles_ref[k].r])
             local == get_local_lims(circles_np)
         IN IF n = 0 \/ lims = "xlim only"
            THEN \* assert circles_ref; assert both limits or neither
                 /\ pc' = "failed"
                 /\ err' = "AssertionError"
                 /\ UNCHANGED <<circles_copy, xlim, ylim, highlight_radius,
                                clustering_threshold, num_lat_clusters>>
            ELSE IF threshold = NoFrac /\ r_sum = 0
            THEN \* ratio_determinant = diameter / (r_avg*3) with r_avg = 0
                 /\ pc' = "failed"
                 /\ err' = "ZeroDivisionError"
                 /\ circles_copy' = circles_np
                 /\ UNCHANGED <<xlim, ylim, highlight_radius,
                                clustering_threshold, num_lat_clusters>>
            ELSE /\ pc' = "seed"
                 /\ err' = ""
                 /\ circles_copy' = circles_np
                 /\ highlight_radius' = <<r_sum, 10 * n>>
                 /\ xlim' = local[1]
                 /\ ylim' = local[2]
                 /\ clustering_threshold' =
                       IF threshold = NoFrac THEN AutoThreshold(r_sum, n)
                       ELSE threshold
                 /\ num_lat_clusters' = num
    /\ UNCHANGED <<p0_list, i, j, ot, lat_clusters, min_fun_vals_list_prev,
                   min_fun_vals_list, min_fun_vals, use_local_lims, p0,
                   best_total_loss, best_fun_vals_list, totals, returned>>
    /\ UNCHANGED <<p, probe>>

\* --------------------------------------------- multiple_multilateration
\* "Determine initial points if appropriate": with num_lat_clusters omitted
\* the estimator chooses it, seeds every circle's cluster id and gives the
\* cluster means as p0_list; otherwise ids and p0_list stay None.
Seed ==
    /\ pc = "seed"
    /\ IF num_lat_clusters = None
       THEN \E est \in determine_num_lat_clusters(circles_copy, clustering_threshold) :
              /\ num_lat_clusters' = est.num
              /\ circles_copy' = [k \in 1..Len(circles_copy) |->
                                    [circles_copy[k] EXCEPT !.id = est.ids[k]]]
              /\ p0_list' = est.means
       ELSE UNCHANGED <<num_lat_clusters, circles_copy, p0_list>>
    /\ best_total_loss' = maxsize
    /\ best_fun_vals_list' = NoList
    /\ min_fun_vals_list' = <<>>
    /\ i' = 0
    /\ pc' = IF ReclusterIters > 0 THEN "partition" ELSE "finalize"
    /\ UNCHANGED <<err, xlim, ylim, highlight_radius, clustering_threshold, j,
                   ot, lat_clusters, min_fun_vals_list_prev, min_fun_vals,
                   use_local_lims, p0, totals, returned>>
    /\ UNCHANGED <<p, probe>>

\* Start of round i: lat_clusters groups the circles by cluster id.  An id
\* that is None cannot index the list of groups.
Partition ==
    /\ pc = "partition"
    /\ IF \E k \in 1..Len(circles_copy) : circles_copy[k].id = None
       THEN /\ pc' = "failed"
            /\ err' = "TypeError"
            /\ UNCHANGED <<lat_clusters, min_fun_vals_list_prev,
                           min_fun_vals_list, j>>
       ELSE /\ lat_clusters' =
                 [g \in 1..num_lat_clusters |->
                    SelectSeq([k \in 1..Len(circles_copy) |-> k],
                              LAMBDA k : circles_copy[k].id = g - 1)]
            /\ min_fun_vals_list_prev' = min_fun_vals_list
            /\ min_fun_vals_list' = <<>>
            /\ j' = 0
            /\ pc' = "solve"
            /\ err' = ""
    /\ UNCHANGED <<circles_copy, xlim, ylim, highlight_radius,
                   clustering_threshold, num_lat_clusters, p0_list, i, ot,
                   min_fun_vals, use_local_lims, p0, best_total_loss,
                   best_fun_vals_list, totals, returned>>
    /\ UNCHANGED <<p, probe>>

\* The circles of group g (0-based), read through lat_clusters, which holds
\* references into circles_copy.
GroupCircles(g) == [k \in 1..Len(lat_clusters[g + 1]) |-> circles_copy[lat_clusters[g + 1][k]]]

\* CarryForward as it would be if an empty group of a later round were
\* treated like one of round 0: the sentinel loss with the previous point.
CarryForwardReset ==
    /\ pc = "solve"
    /\ j < num_lat_clusters
    /\ lat_clusters[j + 1] = <<>>
    /\ i > 0
    /\ min_fun_vals_list' =
          Append(min_fun_vals_list,
                 [loss |-> maxsize, p |-> min_fun_vals_list_prev[j + 1].p,
                  circles |-> <<>>, index |-> j, pp |-> <<>>])
    /\ j' = j + 1
    /\ UNCHANGED <<pc, err, circles_copy, xlim, ylim, highlight_radius,
                   clustering_threshold, num_lat_clusters, p0_list, i, ot, lat_clusters,
                   min_fun_vals_list_prev, min_fun_vals, use_local_lims, p0,
                   best_total_loss, best_fun_vals_list, totals, returned>>
    /\ UNCHANGED <<p, probe>>

\* "if not lat_cluster and i > 0": an empty group of a later round keeps the
\* previous round's entry.
CarryForward ==
    /\ pc = "solve"
    /\ j < num_lat_clusters
    /\ lat_clusters[j + 1] = <<>>
    /\ i > 0
    /\ min_fun_vals_list' = Append(min_fun_vals_list, min_fun_vals_list_prev[j + 1])
    /\ j' = j + 1
    /\ UNCHANGED <<pc, err, circles_copy, xlim, ylim, highlight_radius,
                   clustering_threshold, num_lat_clusters, p0_list, i, ot, lat_clusters,
                   min_fun_vals_list_prev, min_fun_vals, use_local_lims, p0,
                   best_total_loss, best_fun_vals_list, totals, returned>>
    /\ UNCHANGED <<p, probe>>

\* "elif not lat_cluster and i == 0": an empty group of round 0 gets the
\* sentinel loss and its cluster mean as point.
EmptyAtInit ==
    /\ pc = "solve"
    /\ j < num_lat_clusters
    /\ lat_clusters[j + 1] = <<>>
    /\ i = 0
    /\ min_fun_vals_list' =
          Append(min_fun_vals_list,
                 [loss |-> maxsize, p |-> p0_list[j + 1], circles |-> <<>>,
                  index |-> j, pp |-> <<>>])
    /\ j' = j + 1
    /\ UNCHANGED <<pc, err, circles_copy, xlim, ylim, highlight_radius,
                   clustering_threshold, num_lat_clusters, p0_list, i, ot, lat_clusters,
                   min_fun_vals_list_prev, min_fun_vals, use_local_lims, p0,
                   best_total_loss, best_fun_vals_list, totals, returned>>
    /\ UNCHANGED <<p, probe>>

\* use_local_lims = i >= max(2, recluster_iters/4)
UseLocalLims(it) == it >= 2 /\ 4 * it >= ReclusterIters

\* multilat, up to its trial loop: min_fun_vals holds a deep copy of the
\* group's circles.
MultilatBegin ==
    /\ pc = "solve"
    /\ j < num_lat_clusters
    /\ lat_clusters[j + 1] # <<>>
    /\ min_fun_vals' = [loss |-> maxsize, p |-> NoPoint,
                        circles |-> GroupCircles(j), index |-> None, pp |-> <<>>]
    /\ use_local_lims' = UseLocalLims(i)
    /\ ot' = 0
    /\ pc' = "trial"
    /\ UNCHANGED <<err, circles_copy, xlim, ylim, highlight_radius,
                   clustering_threshold, num_lat_clusters, p0_list, i, j, lat_clusters,
                   min_fun_vals_list_prev, min_fun_vals_list, p0,
                   best_total_loss, best_fun_vals_list, totals, returned>>
    /\ UNCHANGED <<p, probe>>

\* The points np.random.uniform may draw: those of the region in use.
RandomStarts(circles, local) ==
    LET lims == IF local THEN get_local_lims(circles) ELSE <<xlim, ylim>> IN
    {q \in StartPoints : /\ lims[1][1] <= q[1] /\ q[1] <= lims[1][2]
                        /\ lims[2][1] <= q[2] /\ q[2] <= lims[2][2]}

\* TrialStarts as it would be if every round's first trial were seeded.
TrialStartsSeeded(it, t, g, circles, local) ==
    IF t = 0
    THEN {[kind |-> "hcluster", pt |-> p0_list[g + 1]]}
    ELSE {[kind |-> "random", pt |-> q] : q \in RandomStarts(circles, local)}

\* The starts trial t of round it may take for group g: p0_from_hcluster is
\* p0_list[g] in round 0 and None later, and is used by the first trial only.
TrialStarts(it, t, g, circles, local) ==
    IF it = 0 /\ t = 0
    THEN {[kind |-> "hcluster", pt |-> p0_list[g + 1]]}
    ELSE {[kind |-> "random", pt |-> q] : q \in RandomStarts(circles, local)}

\* "if p.fun < min_fun_vals['loss']": what one trial's result does.
KeepBetter(mfv, fun, x) ==
    IF fun < mfv.loss THEN [mfv EXCEPT !.loss = fun, !.p = x] ELSE mfv

\* One pass of "for ot in range(opt_trials)".  scipy's minimize is outside the
\* repository: it returns some point x with fun = loss_func(x).
Trial ==
    /\ pc = "trial"
    /\ ot < OptTrials
    /\ \E start \in TrialStarts(i, ot, j, min_fun_vals.circles, use_local_lims),
          x \in OptPoints :
         /\ p0' = start
         /\ p' = [fun |-> loss_func(min_fun_vals.circles, x), x |-> x]
         /\ min_fun_vals' = KeepBetter(min_fun_vals,
                                       loss_func(min_fun_vals.circles, x), x)
    /\ ot' = ot + 1
    /\ UNCHANGED <<pc, err, circles_copy, xlim, ylim, highlight_radius,
                   clustering_threshold, num_lat_clusters, p0_list, i, j, lat_clusters,
                   min_fun_vals_list_prev, min_fun_vals_list, use_local_lims,
                   best_total_loss, best_fun_vals_list, totals, returned>>
    /\ UNCHANGED probe

\* multilat returns; the caller sets the entry's index and appends it.
MultilatReturn ==
    /\ pc = "trial"
    /\ ot = OptTrials
    /\ min_fun_vals_list' = Append(min_fun_vals_list, [min_fun_vals EXCEPT !.index = j])
    /\ min_fun_vals' = NoFunVals
    /\ p0' = NoStart
    /\ p' = NoResult
    /\ use_local_lims' = FALSE
    /\ ot' = 0
    /\ j' = j + 1
    /\ pc' = "solve"
    /\ UNCHANGED <<err, circles_copy, xlim, ylim, highlight_radius,
                   clustering_threshold, num_lat_clusters, p0_list, i, lat_clusters,
                   min_fun_vals_list_prev, best_total_loss, best_fun_vals_list,
                   totals, returned>>
    /\ UNCHANGED probe

\* total_loss of a list of entries.
TotalLoss(list) == SumSeq([k \in 1..Len(list) |-> list[k].loss])

\* Improves with the comparison turned around.
ImprovesReversed(total, best) == total > best

\* Improves with "<=": a round that only ties replaces the snapshot.
ImprovesOrEqual(total, best) == total <= best

\* "if total_loss < best_total_loss"
Improves(total, best) == total < best

\* After the group loop: the round's total, and the best snapshot (a deep
\* copy, so a value).
Snapshot ==
    /\ pc = "solve"
    /\ j = num_lat_clusters
    /\ LET total_loss == TotalLoss(min_fun_vals_list) IN
         /\ totals' = totals \cup {total_loss}
         /\ IF Improves(total_loss, best_total_loss)
            THEN /\ best_total_loss' = total_loss
                 /\ best_fun_vals_list' = min_fun_vals_list
            ELSE UNCHANGED <<best_total_loss, best_fun_vals_list>>
    /\ pc' = "reassign"
    /\ UNCHANGED <<err, circles_copy, xlim, ylim, highlight_radius,
                   clustering_threshold, num_lat_clusters, p0_list, i, j, ot, lat_clusters,
                   min_fun_vals_list_prev, min_fun_vals_list, min_fun_vals,
                   use_local_lims, p0, returned>>
    /\ UNCHANGED <<p, probe>>

\* argmin_p: the loop over min_fun_vals, from entry k on.
RECURSIVE ArgminFrom(_, _, _, _, _)
ArgminFrom(circle, list, k, min_val, min_lat_cluster) ==
    IF k > Len(list) THEN min_lat_cluster
    ELSE LET loss == single_loss(list[k].p, circle.c, circle.r) IN
         IF loss < min_val
         THEN ArgminFrom(circle, list, k + 1, loss, list[k].index)
         ELSE ArgminFrom(circle, list, k + 1, min_val, min_lat_cluster)

\* argmin_p returning the 1-based position of the entry, not its index.
argmin_position(circle, list) == ArgminFrom(circle, list, 1, maxsize, None) + 1

\* argmin_p with "<=": the last of the minimizing entries wins.
RECURSIVE ArgminLastFrom(_, _, _, _, _)
ArgminLastFrom(circle, list, k, min_val, min_lat_cluster) ==
    IF k > Len(list) THEN min_lat_cluster
    ELSE LET loss == single_loss(list[k].p, circle.c, circle.r) IN
         IF loss <= min_val
         THEN ArgminLastFrom(circle, list, k + 1, loss, list[k].index)
         ELSE ArgminLastFrom(circle, list, k + 1, min_val, min_lat_cluster)

argmin_p_last(circle, list) == ArgminLastFrom(circle, list, 1, maxsize, None)

argmin_p(circle, list) == ArgminFrom(circle, list, 1, maxsize, None)

\* Reassign as it would be with an exit on convergence: the rounds end as
\* soon as a reassignment changes no cluster id.
ReassignUntilStable ==
    /\ pc = "reassign"
    /\ circles_copy' = [k \in 1..Len(circles_copy) |->
                          [circles_copy[k] EXCEPT
                              !.id = argmin_p(circles_copy[k], min_fun_vals_list)]]
    /\ i' = i + 1
    /\ pc' = IF i + 1 < ReclusterIters /\ circles_copy' # circles_copy
             THEN "partition" ELSE "finalize"
    /\ UNCHANGED <<err, xlim, ylim, highlight_radius, clustering_threshold,
                   num_lat_clusters, p0_list,
                   j, ot, lat_clusters, min_fun_vals_list_prev,
                   min_fun_vals_list, min_fun_vals, use_local_lims, p0,
                   best_total_loss, best_fun_vals_list, totals, returned>>
    /\ UNCHANGED <<p, probe>>

\* reassign_circle_clusters, and the end of round i.
Reassign ==
    /\ pc = "reassign"
    /\ circles_copy' = [k \in 1..Len(circles_copy) |->
                          [circles_copy[k] EXCEPT
                              !.id = argmin_p(circles_copy[k], min_fun_vals_list)]]
    /\ i' = i + 1
    /\ pc' = IF i + 1 < ReclusterIters THEN "partition" ELSE "finalize"
    /\ UNCHANGED <<err, xlim, ylim, highlight_radius, clustering_threshold,
                   num_lat_clusters, p0_list,
                   j, ot, lat_clusters, min_fun_vals_list_prev,
                   min_fun_vals_list, min_fun_vals, use_local_lims, p0,
                   best_total_loss, best_fun_vals_list, totals, returned>>
    /\ UNCHANGED <<p, probe>>

\* ---------------------------------------------------- ambiguity resolver
\* Resolve as it would be with the two-circle test made first.
ResolvePairFirst(best_fun_vals, hr) ==
    LET cs == best_fun_vals.circles
        m == Len(cs)
    IN IF m = 2
       THEN LET ix == get_circle_intersections(cs[1].c, cs[1].r, cs[2].c, cs[2].r, 1)
            IN IF ix.case = "intersect"
               THEN <<[pt |-> ix.ix0, r |-> hr], [pt |-> ix.ix1, r |-> hr]>>
               ELSE <<[pt |-> best_fun_vals.p, r |-> hr]>>
       ELSE IF m >= 1 /\ \A k \in 1..m : cs[k].c = cs[1].c
       THEN <<[pt |-> cs[1].c,
               r |-> <<9 * SumSeq([k \in 1..m |-> cs[k].r]), 10 * m>>]>>
       ELSE <<[pt |-> best_fun_vals.p, r |-> hr]>>

\* Resolve as it would be without the two-circle branch.
ResolvePointOnly(best_fun_vals, hr) ==
    LET cs == best_fun_vals.circles
        m == Len(cs)
    IN IF m >= 1 /\ \A k \in 1..m : cs[k].c = cs[1].c
       THEN <<[pt |-> cs[1].c,
               r |-> <<9 * SumSeq([k \in 1..m |-> cs[k].r]), 10 * m>>]>>
       ELSE <<[pt |-> best_fun_vals.p, r |-> hr]>>

\* The 'p+' list of one returned entry.
Resolve(best_fun_vals, hr) ==
    LET cs == best_fun_vals.circles
        m == Len(cs)
    IN IF m >= 1 /\ \A k \in 1..m : cs[k].c = cs[1].c
       THEN <<[pt |-> cs[1].c,
               r |-> <<9 * SumSeq([k \in 1..m |-> cs[k].r]), 10 * m>>]>>
       ELSE IF m = 2
       THEN LET ix == get_circle_intersections(cs[1].c, cs[1].r, cs[2].c, cs[2].r, 1)
            IN IF ix.case = "intersect"
               THEN <<[pt |-> ix.ix0, r |-> hr], [pt |-> ix.ix1, r |-> hr]>>
               ELSE <<[pt |-> best_fun_vals.p, r |-> hr]>>
       ELSE <<[pt |-> best_fun_vals.p, r |-> hr]>>

\* "if best_fun_vals_list is None": the last round's list stands in.
Fallback(best, last) == IF best = NoList THEN last ELSE best

\* The end of multiple_multilateration and of locate_intersections.
Finalize ==
    /\ pc = "finalize"
    /\ LET chosen == Fallback(best_fun_vals_list, min_fun_vals_list)
           resolved == [k \in 1..Len(chosen) |->
                          [chosen[k] EXCEPT !.pp = Resolve(chosen[k], highlight_radius)]]
       IN /\ best_fun_vals_list' = resolved
          /\ returned' = <<[best_fun_vals_list |-> resolved,
                            best_total_loss |-> best_total_loss,
                            xlim |-> xlim, ylim |-> ylim,
                            highlight_radius |-> highlight_radius]>>
    /\ pc' = "done"
    /\ UNCHANGED <<err, circles_copy, xlim, ylim, highlight_radius,
                   clustering_threshold, num_lat_clusters, p0_list, i, j, ot, lat_clusters,
                   min_fun_vals_list_prev, min_fun_vals_list, min_fun_vals,
                   use_local_lims, p0, best_total_loss, totals>>
    /\ UNCHANGED <<p, probe>>

Next ==
    \/ LocateIntersections
    \/ Seed
    \/ Partition
    \/ CarryForward
    \/ EmptyAtInit
    \/ MultilatBegin
    \/ Trial
    \/ MultilatReturn
    \/ Snapshot
    \/ Reassign
    \/ Finalize

Spec == Init /\ [][Next]_vars

\* ------------------------------------------- the resolver on its own
\* Most member circles of an entry given to the resolver.
MaxMembers == 3

\* Circles in the plane: two around one center, one that crosses both of
\* them, one apart from all, one that contains the first three.
ResolverCircles == {[c |-> Pt(0, 0), r |-> 5 * Unit], [c |-> Pt(0, 0), r |-> 3 * Unit],
                    [c |-> Pt(6, 0), r |-> 5 * Unit], [c |-> Pt(0, 8), r |-> Unit],
                    [c |-> Pt(6, 0), r |-> 12 * Unit]}

\* Solved points of an entry.
ResolverPoints == {Pt(0, 0), Pt(6, 8)}

\* highlight_radius values of a call.
ResolverRadii == {<<2 * Unit, 10>>, <<3 * Unit, 10>>}

\* The end of multiple_multilateration's loop for a run whose circles are
\* all in cluster 0, alone or next to a cluster that was empty in round 0
\* and stayed so: the member circles, the solved point and the highlight
\* radius are drawn.
InitResolve ==
    \E members \in UNION {[1..n -> ResolverCircles] : n \in 1..MaxMembers},
       pt \in ResolverPoints, hr \in ResolverRadii, with_empty \in BOOLEAN :
      LET cs == [k \in 1..Len(members) |->
                   [c |-> members[k].c, r |-> members[k].r, id |-> 0, label |-> k]]
          entry == [loss |-> loss_func(cs, pt), p |-> pt, circles |-> cs,
                    index |-> 0, pp |-> <<>>]
          empty == [loss |-> maxsize, p |-> pt, circles |-> <<>>, index |-> 1,
                    pp |-> <<>>]
          list == IF with_empty THEN <<entry, empty>> ELSE <<entry>>
      IN /\ pc = "finalize"
         /\ err = ""
         /\ circles_copy = cs
         /\ xlim = NoLim
         /\ ylim = NoLim
         /\ highlight_radius = hr
         /\ clustering_threshold = NoFrac
         /\ num_lat_clusters = Len(list)
         /\ p0_list = [g \in 1..Len(list) |-> pt]
         /\ i = ReclusterIters
         /\ j = Len(list)
         /\ ot = 0
         /\ lat_clusters = IF with_empty THEN <<[k \in 1..Len(cs) |-> k], <<>>>>
                           ELSE <<[k \in 1..Len(cs) |-> k]>>
         /\ min_fun_vals_list_prev = list
         /\ min_fun_vals_list = list
         /\ min_fun_vals = NoFunVals
         /\ use_local_lims = FALSE
         /\ p0 = NoStart
         /\ p = NoResult
         /\ best_total_loss = Min2(TotalLoss(list), maxsize)
         /\ best_fun_vals_list = IF TotalLoss(list) < maxsize THEN list ELSE NoList
         /\ totals = {TotalLoss(list)}
         /\ returned = NoList
         /\ probe = NoProbe

NextResolve == Finalize

SpecResolve == InitResolve /\ [][NextResolve]_vars

\* --------------------------------- the loss and its jacobian, compared
\* The points the comparison is made at: on the line of the centers of
\* CircleSet, none of them a center.
ProbePoints == {Pt(1, 0), Pt(2, 0), Pt(3, 0), Pt(4, 0), Pt(5, 0), Pt(7, 0)}

\* The central difference loss_func(p + h*e1) - loss_func(p - h*e1) along
\* the line of the centers; divided by 2*h it approximates dL/dp1.
FiniteDifference(circles, q, h) ==
    loss_func(circles, <<q[1] + h, q[2]>>) - loss_func(circles, <<q[1] - h, q[2]>>)

InitGradient ==
    /\ pc = "probe"
    /\ \E circles \in InputCircles, q \in ProbePoints :
         /\ circles # <<>>
         /\ probe = [circles |-> circles, p |-> q, grad_j |-> NoPoint, fd |-> NoPoint]
    /\ err = ""
    /\ circles_copy = <<>>
    /\ xlim = NoLim
    /\ ylim = NoLim
    /\ highlight_radius = NoFrac
    /\ clustering_threshold = NoFrac
    /\ num_lat_clusters = None
    /\ p0_list = NoList
    /\ i = 0
    /\ j = 0
    /\ ot = 0
    /\ lat_clusters = <<>>
    /\ min_fun_vals_list_prev = <<>>
    /\ min_fun_vals_list = <<>>
    /\ min_fun_vals = NoFunVals
    /\ use_local_lims = FALSE
    /\ p0 = NoStart
    /\ p = NoResult
    /\ best_total_loss = maxsize
    /\ best_fun_vals_list = NoList
    /\ totals = {}
    /\ returned = NoList

\* The builder's jacobian and the central difference of its loss_func, with
\* a step of one 1/Unit-th of the unit of length, at the drawn point.
Differentiate ==
    /\ pc = "probe"
    /\ probe' = [probe EXCEPT !.grad_j = jacobian(probe.circles, probe.p),
                              !.fd = <<FiniteDifference(probe.circles, probe.p, 1), 2>>]
    /\ pc' = "probed"
    /\ UNCHANGED <<err, circles_copy, xlim, ylim, highlight_radius,
                   clustering_threshold, num_lat_clusters, p0_list, i, j, ot,
                   lat_clusters, min_fun_vals_list_prev, min_fun_vals_list,
                   min_fun_vals, use_local_lims, p0, p, best_total_loss,
                   best_fun_vals_list, totals, returned>>

NextGradient == Differentiate

SpecGradient == InitGradient /\ [][NextGradient]_vars

\* ------------------------------------------------------------ properties
\* C1: the best total loss, while the rounds run and as returned, is at
\* most the total loss of every round of the run so far.
C1_BestLossBound ==
    /\ \A t \in totals : best_total_loss <= t
    /\ pc = "done" => \A t \in totals : returned[1].best_total_loss <= t

\* A finished run whose rounds had different totals, the best a solved one.
C1_Witness ==
    /\ pc = "done"
    /\ Cardinality(totals) >= 2
    /\ returned[1].best_total_loss < maxsize
    /\ \E t \in totals : returned[1].best_total_loss < t

\* C2: the returned list is the list of a round whose total loss is minimal
\* among the rounds of the run.
C2_ReturnsMinimalRound ==
    pc = "done" =>
       \A t \in totals : TotalLoss(returned[1].best_fun_vals_list) <= t

\* C3: once the estimator has seeded the ids, at the start of every round
\* and after every reassignment each circle's id is in 0..num_lat_clusters-1.
C3_PartitionInvariant ==
    (pc \in {"partition", "solve", "trial", "reassign", "finalize", "done"}
        /\ p0_list # NoList)
    => \A k \in 1..Len(circles_copy) :
          circles_copy[k].id \in 0..(num_lat_clusters - 1)

\* A later round starts with several clusters, a circle having been
\* reassigned to another cluster than the estimator gave it.
C3_Witness ==
    /\ pc = "partition"
    /\ i >= 1
    /\ num_lat_clusters >= 2
    /\ \E est \in determine_num_lat_clusters(circles_copy, clustering_threshold) :
         \E k \in 1..Len(circles_copy) : circles_copy[k].id # est.ids[k]

\* C4: a run fails only on the assertions about its input.
C4_OnlyInvalidInput == pc = "failed" => err = "AssertionError"

\* C5: the round's list has one entry per cluster, entry j with index j, the
\* number of clusters being that of the seeding; in a later round the entry
\* of a group without circles is the previous round's.
C5_CarryForward ==
    /\ (pc \in {"partition", "solve", "trial", "reassign", "finalize"}
           /\ p0_list # NoList)
       => Len(p0_list) = num_lat_clusters
    /\ pc \in {"solve", "trial"} =>
          /\ Len(min_fun_vals_list) = j
          /\ Len(lat_clusters) = num_lat_clusters
    /\ pc = "reassign" =>
          /\ Len(min_fun_vals_list) = num_lat_clusters
          /\ \A g \in 1..num_lat_clusters : min_fun_vals_list[g].index = g - 1
          /\ i >= 1 =>
               \A g \in 1..num_lat_clusters :
                  lat_clusters[g] = <<>> =>
                     /\ min_fun_vals_list[g].p = min_fun_vals_list_prev[g].p
                     /\ min_fun_vals_list[g].loss = min_fun_vals_list_prev[g].loss
                     /\ min_fun_vals_list[g] = min_fun_vals_list_prev[g]

\* A later round has ended with a group that lost its circles and kept a
\* solved entry, next to a group that was solved again.
C5_Witness ==
    /\ pc = "reassign"
    /\ i >= 1
    /\ \E g, h \in 1..num_lat_clusters :
         /\ lat_clusters[g] = <<>>
         /\ min_fun_vals_list[g].loss < maxsize
         /\ min_fun_vals_list[g].circles # <<>>
         /\ lat_clusters[h] # <<>>

\* C6: after reassignment each circle's id is the index of an entry whose
\* point minimizes single_loss for the circle over all entries, and no
\* entry with a lower index does as well.
C6_Reassignment ==
    (pc \in {"partition", "finalize"} /\ i >= 1) =>
       \A k \in 1..Len(circles_copy) :
          \E g \in 1..Len(min_fun_vals_list) :
             LET loss(h) == single_loss(min_fun_vals_list[h].p,
                                        circles_copy[k].c, circles_copy[k].r)
             IN /\ min_fun_vals_list[g].index = circles_copy[k].id
                /\ \A h \in 1..Len(min_fun_vals_list) :
                      /\ loss(g) <= loss(h)
                      /\ h < g => loss(g) < loss(h)

\* A circle was reassigned where two entries tie for its minimum, the
\* other being that of a group without circles.
C6_Witness ==
    /\ pc = "partition"
    /\ i >= 1
    /\ \E k \in 1..Len(circles_copy) :
         \E g, h \in 1..Len(min_fun_vals_list) :
            /\ g < h
            /\ circles_copy[k].id = g - 1
            /\ lat_clusters[h] = <<>>
            /\ single_loss(min_fun_vals_list[g].p, circles_copy[k].c, circles_copy[k].r)
                 = single_loss(min_fun_vals_list[h].p, circles_copy[k].c, circles_copy[k].r)

\* C7: in a group solve the first trial of round 0 starts from the group's
\* seeded mean; every other trial, the first trial of a later round
\* included, starts from a random point of the region in use; the result
\* kept is that of the first trial with the lowest loss.
C7_MultiStart ==
    [][(pc = "trial" /\ ot' = ot + 1) =>
         LET region == IF use_local_lims
                       THEN get_local_lims(min_fun_vals.circles)
                       ELSE <<xlim, ylim>>
         IN /\ (i = 0 /\ ot = 0) =>
                  p0' = [kind |-> "hcluster", pt |-> p0_list[j + 1]]
            /\ ~(i = 0 /\ ot = 0) =>
                  /\ p0'.kind = "random"
                  /\ region[1][1] <= p0'.pt[1] /\ p0'.pt[1] <= region[1][2]
                  /\ region[2][1] <= p0'.pt[2] /\ p0'.pt[2] <= region[2][2]
            /\ min_fun_vals'.loss = Min2(min_fun_vals.loss, p'.fun)
            /\ p'.fun < min_fun_vals.loss => min_fun_vals'.p = p'.x
            /\ p'.fun >= min_fun_vals.loss => min_fun_vals'.p = min_fun_vals.p
      ]_vars

\* The last trial of a later round's solve started at random and tied with
\* an earlier trial, whose point was kept.
C7_Witness ==
    /\ pc = "trial"
    /\ i >= 1
    /\ ot = OptTrials
    /\ p0.kind = "random"
    /\ p.fun = min_fun_vals.loss
    /\ p.x # min_fun_vals.p

\* C7 as stated: the first trial of a solve never starts at random.
C7_FirstTrialDeterministic == (pc = "trial" /\ ot = 1) => p0.kind # "random"

\* C8: a returned entry whose member circles, one or more, all have the
\* same center has a 'p+' list of one item: that center, with 0.9 times
\* the average member radius; so also when the members are two.
C8_SharedCenter ==
    pc = "done" =>
       \A e \in 1..Len(returned[1].best_fun_vals_list) :
          LET entry == returned[1].best_fun_vals_list[e]
              cs == entry.circles
              m == Len(cs)
          IN (m >= 1 /\ \A k \in 1..m : cs[k].c = cs[1].c) =>
                /\ Len(entry.pp) = 1
                /\ entry.pp[1].pt = cs[1].c
                /\ 10 * m * entry.pp[1].r[1]
                     = 9 * SumSeq([k \in 1..m |-> cs[k].r]) * entry.pp[1].r[2]

\* A returned entry of two circles with one center and different radii,
\* solved at another point than the center.
C8_Witness ==
    /\ pc = "done"
    /\ \E e \in 1..Len(returned[1].best_fun_vals_list) :
         LET entry == returned[1].best_fun_vals_list[e] IN
         /\ Len(entry.circles) = 2
         /\ entry.circles[1].c = entry.circles[2].c
         /\ entry.circles[1].r # entry.circles[2].r
         /\ entry.p # entry.circles[1].c
         /\ Len(entry.pp) = 1

\* C9: a returned entry's 'p+' list has one or two items; two, the points
\* of intersection with the highlight radius, exactly when its members are
\* two circles with different centers that the primitive reports as
\* 'intersect'; otherwise, the centers not being all the same, the one item
\* is the solved point with the highlight radius.
C9_PairAndDefault ==
    pc = "done" =>
       \A e \in 1..Len(returned[1].best_fun_vals_list) :
          LET entry == returned[1].best_fun_vals_list[e]
              cs == entry.circles
              m == Len(cs)
              hr == returned[1].highlight_radius
              shared == m >= 1 /\ \A k \in 1..m : cs[k].c = cs[1].c
              pair == /\ m = 2
                      /\ cs[1].c # cs[2].c
                      /\ IntersectionCase(cs[1].c, cs[1].r, cs[2].c, cs[2].r, 1)
                           = "intersect"
          IN /\ Len(entry.pp) \in {1, 2}
             /\ Len(entry.pp) = 2 <=> pair
             /\ pair => entry.pp =
                   <<[pt |-> IntersectionPoint(0, cs[1].c, cs[1].r, cs[2].c, cs[2].r, 1),
                      r |-> hr],
                     [pt |-> IntersectionPoint(1, cs[1].c, cs[1].r, cs[2].c, cs[2].r, 1),
                      r |-> hr]>>
             /\ (~shared /\ ~pair) => entry.pp = <<[pt |-> entry.p, r |-> hr]>>

\* A returned entry of two circles that cross, with both points listed.
C9_Witness ==
    /\ pc = "done"
    /\ \E e \in 1..Len(returned[1].best_fun_vals_list) :
         LET entry == returned[1].best_fun_vals_list[e] IN
         /\ Len(entry.circles) = 2
         /\ Len(entry.pp) = 2
         /\ entry.pp[1].pt # entry.pp[2].pt
         /\ entry.pp[1].r = returned[1].highlight_radius

\* C10: at a point that is no center the jacobian's component along the
\* line of the centers is, within a hundredth, the central difference
\* quotient of loss_func there.
C10_GradientMatchesDifference ==
    pc = "probed" =>
       100 * Abs(probe.grad_j[1] * probe.fd[2] - probe.fd[1] * Unit)
          <= probe.fd[2] * Unit

\* The losses, points, member circles (with their cluster ids) and indices
\* of a list of entries, without the 'p+' lists.
Core(list) ==
    [k \in 1..Len(list) |->
       [loss |-> list[k].loss, p |-> list[k].p, circles |-> list[k].circles,
        index |-> list[k].index]]

\* C11: once there is a best snapshot, a step either leaves its losses,
\* points, member circles and their cluster ids as they are, or is the
\* snapshot comparison of a round whose total is strictly lower, which
\* replaces it by that round's list as a whole.
C11_SnapshotIsolation ==
    [][best_fun_vals_list # NoList =>
         \/ Core(best_fun_vals_list') = Core(best_fun_vals_list)
         \/ /\ pc = "solve"
            /\ j = num_lat_clusters
            /\ TotalLoss(min_fun_vals_list) < best_total_loss
            /\ best_fun_vals_list' = min_fun_vals_list
            /\ best_total_loss' = TotalLoss(min_fun_vals_list)
      ]_vars

\* Two rounds after the snapshot was taken it is still the best: a later
\* round's total was higher, and a circle has since been reassigned away
\* from the cluster the snapshot lists it under.
C11_Witness ==
    /\ pc = "partition"
    /\ i >= 2
    /\ best_fun_vals_list # NoList
    /\ \E t \in totals : t > best_total_loss
    /\ \E e \in 1..Len(best_fun_vals_list) :
         \E m \in 1..Len(best_fun_vals_list[e].circles) :
            LET member == best_fun_vals_list[e].circles[m]
            IN circles_copy[member.label].id # member.id

\* The indices of the circles whose cluster id is g.
IndicesOf(g) ==
    SelectSeq([k \in 1..Len(circles_copy) |-> k], LAMBDA k : circles_copy[k].id = g)

\* Every circle's cluster id is the one argmin_p gives it against list.
AssignedBy(list) ==
    \A k \in 1..Len(circles_copy) :
       circles_copy[k].id = argmin_p(circles_copy[k], list)

\* Trial can be taken: a trial is left to do, and there is a start for it
\* and a point for the minimizer to return.
TrialCanRun ==
    /\ pc = "trial"
    /\ ot < OptTrials
    /\ TrialStarts(i, ot, j, min_fun_vals.circles, use_local_lims) # {}
    /\ OptPoints # {}

\* What holds in every state of a round: the counters are within their
\* ranges, the groups in use are the partition by the current cluster ids,
\* which from round 1 on are the ones the previous round's reassignment
\* gave, finalizing comes after recluster_iters rounds, and a run that is
\* in a round has a next step.
RoundState ==
    /\ i \in 0..ReclusterIters
    /\ ot \in 0..OptTrials
    /\ pc \in {"partition", "solve", "trial", "reassign"} =>
          /\ i < ReclusterIters
          /\ num_lat_clusters # None
    /\ pc \in {"solve", "trial", "reassign"} =>
          /\ j \in 0..num_lat_clusters
          /\ Len(lat_clusters) = num_lat_clusters
          /\ \A g \in 1..num_lat_clusters : lat_clusters[g] = IndicesOf(g - 1)
          /\ Len(min_fun_vals_list) = j
          /\ i >= 1 => AssignedBy(min_fun_vals_list_prev)
    /\ pc = "trial" => j < num_lat_clusters
    /\ pc = "reassign" => j = num_lat_clusters
    /\ (pc = "partition" /\ i >= 1) => AssignedBy(min_fun_vals_list)
    /\ pc \in {"finalize", "done"} => i = ReclusterIters
    /\ pc \in {"partition", "solve", "reassign"} =>
          ENABLED (Partition \/ CarryForward \/ EmptyAtInit \/ MultilatBegin
                     \/ Snapshot \/ Reassign)
    /\ pc = "trial" => TrialCanRun \/ ENABLED MultilatReturn

\* What a step of a round does to the position in the run: partition, then
\* one group after the other with its trials, then the snapshot comparison,
\* then the reassignment, which alone changes cluster ids and ends the round.
RoundStep ==
    /\ pc = "partition" =>
          /\ pc' \in {"solve", "failed"}
          /\ i' = i
          /\ circles_copy' = circles_copy
          /\ pc' = "solve" => j' = 0
    /\ (pc = "solve" /\ j < num_lat_clusters) =>
          /\ i' = i
          /\ circles_copy' = circles_copy
          /\ lat_clusters' = lat_clusters
          /\ \/ pc' = "solve" /\ j' = j + 1
             \/ pc' = "trial" /\ j' = j /\ ot' = 0
    /\ pc = "trial" =>
          /\ i' = i
          /\ circles_copy' = circles_copy
          /\ lat_clusters' = lat_clusters
          /\ \/ ot < OptTrials /\ pc' = "trial" /\ j' = j /\ ot' = ot + 1
             \/ ot = OptTrials /\ pc' = "solve" /\ j' = j + 1
    /\ (pc = "solve" /\ j = num_lat_clusters) =>
          /\ pc' = "reassign"
          /\ i' = i
          /\ circles_copy' = circles_copy
          /\ min_fun_vals_list' = min_fun_vals_list
    /\ pc = "reassign" =>
          /\ i' = i + 1
          /\ pc' = IF i + 1 < ReclusterIters THEN "partition" ELSE "finalize"
          /\ min_fun_vals_list' = min_fun_vals_list
    /\ pc = "finalize" => pc' = "done"
    /\ pc' = "finalize" => pc = "reassign"
    /\ pc' = "reassign" => pc = "solve"
    /\ pc' = "partition" => pc \in {"seed", "reassign"}
    /\ pc \in {"done", "failed"} => pc' = pc

\* C12: a run that gets through its rounds makes recluster_iters of them and
\* then finalizes, never stopping before; within a round the steps come in
\* the order partition, solves of all groups, snapshot comparison,
\* reassignment; the cluster ids do not change from the partition to the
\* end of the solves, and the partition of a round is the one the
\* reassignment of the round before produced.
C12_IterationProtocol == []RoundState /\ [][RoundStep]_vars

\* A third round is begun although the reassignment of the second changed
\* no cluster id.
C12_Witness ==
    /\ pc = "partition"
    /\ i >= 2
    /\ AssignedBy(min_fun_vals_list)
    /\ AssignedBy(min_fun_vals_list_prev)

\* The places <<entry, position>> of a list of entries at which the input
\* circle with the given label is a member.
MemberPlaces(list, label) ==
    UNION {{<<e, m>> : m \in {n \in 1..Len(list[e].circles) :
                                 list[e].circles[n].label = label}} :
           e \in 1..Len(list)}

\* C13: in the returned list every input circle is a member of exactly one
\* entry, so the member lists are disjoint and hold num_circles circles in
\* all.
C13_MembersPartitionInput ==
    pc = "done" =>
       LET list == returned[1].best_fun_vals_list IN
       /\ \A k \in 1..Len(circles_copy) :
             Cardinality(MemberPlaces(list, circles_copy[k].label)) = 1
       /\ SumSeq([e \in 1..Len(list) |-> Len(list[e].circles)]) = Len(circles_copy)

\* C14: the returned best_total_loss is the sum of the losses of the
\* entries of the returned list.
C14_ReturnedLossIsSum ==
    pc = "done" =>
       returned[1].best_total_loss = TotalLoss(returned[1].best_fun_vals_list)

====
